---------------------------- MODULE Spec2Model ----------------------------
(***************************************************************************)
(* State machine of the promotion / forwarding bot of src/main.py.         *)
(*                                                                         *)
(* Strings are sequences of atoms.  An atom is an indivisible chunk of     *)
(* text: one character ("a", "B", " ", ","), a bot command ("/start"), a   *)
(* keyboard caption ("Post Ad Now") or a replacement field of a format     *)
(* string ("{username}").  Python's None is the one-atom string None.      *)
(*                                                                         *)
(* Every handler is a coroutine.  It runs without interruption from one    *)
(* await to the next; at an await it is suspended until the awaited call   *)
(* returns or raises.  Each action below is one such uninterrupted piece.  *)
(***************************************************************************)
EXTENDS Integers, Sequences, FiniteSets, Bags

\* ------------------------------------------------------------- bounds
\* Handler invocations in progress at once; handler invocations in a run of
\* a part of the bot, and of the whole bot; users that talk to the bot.
MaxTasks == 2
MaxEvents == 3
MaxSystemEvents == 2
MaxUsers == 2

\* ------------------------------------------------------------ strings
None == <<"<None>">>

Truthy(s) == s # None /\ s # <<>>

\* x or y
Or(x, y) == IF Truthy(x) THEN x ELSE y

\* str.lower() on one atom
LowerAtom(c) == CASE c = "A" -> "a" [] c = "B" -> "b" [] OTHER -> c

\* str.lower()
Lower(s) == [i \in 1..Len(s) |-> LowerAtom(s[i])]

IsSpace(c) == c = " "

RECURSIVE LStrip(_)
LStrip(s) == IF s # <<>> /\ IsSpace(Head(s)) THEN LStrip(Tail(s)) ELSE s

RECURSIVE RStrip(_)
RStrip(s) ==
    IF s # <<>> /\ IsSpace(s[Len(s)]) THEN RStrip(SubSeq(s, 1, Len(s) - 1)) ELSE s

\* str.strip()
Strip(s) == RStrip(LStrip(s))

\* The index of the first sep in s, 0 when there is none.
RECURSIVE Find(_, _, _)
Find(s, sep, i) ==
    IF i > Len(s) THEN 0 ELSE IF s[i] = sep THEN i ELSE Find(s, sep, i + 1)

\* str.split(sep): the list of the pieces between the separators
RECURSIVE Split(_, _)
Split(s, sep) ==
    LET i == Find(s, sep, 1)
    IN  IF i = 0 THEN <<s>>
        ELSE <<SubSeq(s, 1, i - 1)>> \o Split(SubSeq(s, i + 1, Len(s)), sep)

\* str.split(): the list of the maximal runs of non-space atoms
RECURSIVE SplitWs(_)
SplitWs(s) ==
    LET t == LStrip(s)
        i == Find(t, " ", 1)
    IN  IF t = <<>> THEN <<>>
        ELSE IF i = 0 THEN <<t>>
        ELSE <<SubSeq(t, 1, i - 1)>> \o SplitWs(SubSeq(t, i + 1, Len(t)))

\* sep.join(parts)
RECURSIVE Join(_, _)
Join(sep, parts) ==
    IF parts = <<>> THEN <<>>
    ELSE IF Len(parts) = 1 THEN parts[1]
    ELSE parts[1] \o sep \o Join(sep, Tail(parts))

\* k in s
Contains(s, k) ==
    \E i \in 0..(Len(s) - Len(k)) : SubSeq(s, i + 1, i + Len(k)) = k

\* The replacement fields the greeter passes to str.format.
FormatFields == {"{username}", "{chat_title}"}

IsField(c) == c \in FormatFields \cup {"{other}"}

\* str.format raises KeyError on a replacement field it was given no value for.
FormatRaises(tpl) == \E i \in 1..Len(tpl) : IsField(tpl[i]) /\ tpl[i] \notin FormatFields

\* tpl.format(username=username, chat_title=chat_title)
RECURSIVE Format(_, _, _)
Format(tpl, username, chat_title) ==
    IF tpl = <<>> THEN <<>>
    ELSE (CASE Head(tpl) = "{username}" -> username
            [] Head(tpl) = "{chat_title}" -> chat_title
            [] OTHER -> <<Head(tpl)>>)
         \o Format(Tail(tpl), username, chat_title)

\* ------------------------------------------------------ configuration
Users == 1..MaxUsers

\* A channel post has no from_user.
NoUser == 0

ADMIN_IDS == {1}

CHANNEL_ID == -200

SOURCE_CHANNEL_IDS == {-100}

\* Values of the environment variable BLACKLIST_KEYWORDS.
EnvBlacklist == { <<>>, <<" ", "a", "B", " ", ",">>, <<"b">> }

\* [keyword.strip().lower() for keyword in blacklist_str.split(',') if keyword.strip()]
ParseBlacklist(blacklist_str) ==
    LET parts == Split(blacklist_str, ",")
    IN  { Lower(Strip(parts[i])) : i \in { j \in 1..Len(parts) : Truthy(Strip(parts[j])) } }

\* Values of the environment variable FORWARD_FOOTER (None: not set).
EnvFooter == { None, <<>>, <<"F">>, <<" ", "G", " ">> }

\* Values of the environment variable WELCOME_MESSAGE (None: not set).
EnvWelcome ==
    { None, <<>>, <<"W", "{username}", "{chat_title}">>, <<"W", "{other}">> }


\* ------------------------------------------------------------ updates
CommandAtoms == { "/start", "/help", "/settings", "/stats", "/broadcast", "/x" }

\* An incoming update: a message or channel post, a callback query, or a
\* chat_member update.  user is the sender (the member, for chat_member);
\* data is the callback data (the kind of transition, for chat_member);
\* chat_attr says whether the update object has an attribute chat;
\* message_id is the id of update.effective_message, 0 when it has none.
Update(type, user, chat, text, caption, data, chat_attr, message_id) ==
    [ type |-> type, user |-> user, chat |-> chat, text |-> text,
      caption |-> caption, data |-> data, chat_attr |-> chat_attr,
      message_id |-> message_id ]

\* A text message of a user in the private chat with the bot.
Private(user, text) == Update("message", user, user, text, None, "", FALSE, 1)

\* A post of a source channel.
Post(text, caption) ==
    Update("message", NoUser, -100, text, caption, "", FALSE, 1)

\* A press of an inline button.
Press(user, data) ==
    Update("callback_query", user, user, None, None, data, FALSE, 1)

\* A change of a member's status in a chat.
Member(user, chat, transition, chat_attr, message_id) ==
    Update("chat_member", user, chat, None, None, transition, chat_attr,
           message_id)

CallbackData == { "toggle_silent_post", "close_settings", "noop" }

BroadcastTexts ==
    { <<"/broadcast">>, <<"/broadcast", " ", " ">>,
      <<"/broadcast", " ", "a", " ", " ", "b">> }

\* The posts of a source channel: with a text, a caption, both or neither,
\* and a command.
SourcePosts ==
    { Post(t, p) : t \in { None, <<"b">>, <<"A", "b">>, <<" ", "c", " ">>, <<"/x">> },
                   p \in { None, <<"a", "B">> } }

\* The membership changes: joins and leaves, in the destination channel and
\* in another chat.
MemberUpdates ==
    { Member(2, c, d, a, m) : c \in { CHANNEL_ID, -300 },
                              d \in { "joined", "left" },
                              a \in BOOLEAN, m \in { 0, 1 } }

\* The updates of the runs of the forwarder alone.
ForwarderUpdates == SourcePosts \cup { Private(1, <<"b">>) }

\* The updates of the runs of the greeter alone.
GreeterUpdates == MemberUpdates

\* The updates of the runs of start, stats and broadcast.
BroadcastUpdates ==
    { Private(u, t) : u \in Users,
                      t \in { <<"/start">>, <<"/stats">> } \cup BroadcastTexts }

\* The updates of the runs of the handlers that post to the channel and of
\* the settings buttons.
PostingUpdates ==
    { Private(1, <<"Post Ad Now">>), Press(1, "toggle_silent_post"),
      Press(2, "toggle_silent_post"), Press(1, "close_settings"),
      Press(1, "noop"), Post(<<"b">>, None), Post(<<"a">>, None),
      Member(2, CHANNEL_ID, "joined", TRUE, 1),
      Member(2, CHANNEL_ID, "joined", TRUE, 0),
      Member(2, CHANNEL_ID, "joined", FALSE, 0) }

\* The updates of the runs of the whole bot: every command and keyboard
\* caption from the admin and from another user, button presses of both, two
\* posts of a source channel (one with a blacklisted keyword) and two joins.
SystemUpdates ==
    { Private(1, t) :
        t \in { <<"/start">>, <<"/help">>, <<"/settings">>, <<"/stats">>,
                <<"/broadcast">>, <<"/broadcast", " ", "a">>,
                <<"Post Ad Now">>, <<"Settings">>, <<"Stats">>, <<"a">> } }
    \cup { Private(2, t) :
        t \in { <<"/help">>, <<"/settings">>, <<"/stats">>,
                <<"/broadcast", " ", "a">>,
                <<"Post Ad Now">>, <<"Settings">>, <<"Stats">> } }
    \cup { Press(u, d) : u \in {1, 2}, d \in CallbackData }
    \cup { Post(<<"b">>, None), Post(<<"a">>, None),
           Member(2, CHANNEL_ID, "joined", TRUE, 1),
           Member(2, CHANNEL_ID, "joined", FALSE, 0) }

\* ----------------------------------------------------------- dispatch
\* filters.COMMAND: the message text starts with a bot command
IsCommand(upd) == Truthy(upd.text) /\ Head(upd.text) \in CommandAtoms

\* filters.User(user_id=ADMIN_IDS)
admin_filter(upd) == upd.user # NoUser /\ upd.user \in ADMIN_IDS

\* One registered handler: the kind of handler, what it matches (a command
\* name, a full-match text, or nothing), whether admin_filter and the
\* source-chat filter are part of its filter, and the callback it runs.
Handler(kind, match, admin, source, callback) ==
    [ kind |-> kind, match |-> match, admin |-> admin, source |-> source,
      callback |-> callback ]

\* The same registrations with admin_filter left off the broadcast command.
HandlersNoAdminFilter ==
    << Handler("command", "/start", FALSE, FALSE, "start"),
       Handler("command", "/help", FALSE, FALSE, "help_command"),
       Handler("command", "/settings", TRUE, FALSE, "settings_menu"),
       Handler("command", "/stats", TRUE, FALSE, "stats_command"),
       Handler("command", "/broadcast", FALSE, FALSE, "broadcast_command"),
       Handler("regex", "Post Ad Now", TRUE, FALSE, "manual_post_ad"),
       Handler("regex", "Settings", TRUE, FALSE, "settings_menu"),
       Handler("regex", "Stats", TRUE, FALSE, "stats_command"),
       Handler("callback_query", "", FALSE, FALSE, "settings_button_handler"),
       Handler("message", "", FALSE, TRUE, "news_forwarder"),
       Handler("chat_member", "", FALSE, FALSE, "greet_new_members") >>

\* application.add_handler(...), in registration order
Handlers ==
    << Handler("command", "/start", FALSE, FALSE, "start"),
       Handler("command", "/help", FALSE, FALSE, "help_command"),
       Handler("command", "/settings", TRUE, FALSE, "settings_menu"),
       Handler("command", "/stats", TRUE, FALSE, "stats_command"),
       Handler("command", "/broadcast", TRUE, FALSE, "broadcast_command"),
       Handler("regex", "Post Ad Now", TRUE, FALSE, "manual_post_ad"),
       Handler("regex", "Settings", TRUE, FALSE, "settings_menu"),
       Handler("regex", "Stats", TRUE, FALSE, "stats_command"),
       Handler("callback_query", "", FALSE, FALSE, "settings_button_handler"),
       Handler("message", "", FALSE, TRUE, "news_forwarder"),
       Handler("chat_member", "", FALSE, FALSE, "greet_new_members") >>

\* Whether handler h accepts update upd.
Matches(h, upd) ==
    /\ h.admin => admin_filter(upd)
    /\ CASE h.kind = "command" ->
              upd.type = "message" /\ IsCommand(upd) /\ Head(upd.text) = h.match
         [] h.kind = "regex" ->
              upd.type = "message" /\ upd.text = <<h.match>>
         [] h.kind = "message" ->
              /\ upd.type = "message"
              /\ h.source => (upd.chat \in SOURCE_CHANNEL_IDS /\ ~IsCommand(upd))
         [] h.kind = "callback_query" -> upd.type = "callback_query"
         [] h.kind = "chat_member" -> upd.type = "chat_member"
         [] OTHER -> FALSE

\* The callback the application runs for upd: that of the first handler, in
\* registration order, that accepts it; "none" when no handler does.
Dispatch(upd) ==
    LET hits == { i \in 1..Len(Handlers) : Matches(Handlers[i], upd) }
    IN  IF hits = {} THEN "none"
        ELSE Handlers[CHOOSE i \in hits : \A j \in hits : i <= j].callback

\* -------------------------------------------------------------- state
VARIABLES
    BLACKLIST_KEYWORDS,  \* the configured keywords, fixed at start-up
    SETTINGS,            \* SILENT_POST, FORWARD_FOOTER, WELCOME_MESSAGE
    STATS,               \* ads_sent, forwards_done, welcomes_sent
    USER_IDS,            \* the chats that issued /start
    tasks,               \* the bag of the handler invocations in progress
    job_queue,           \* the jobs scheduled on context.job_queue
    delivered,           \* history: outbound deliveries that succeeded, toggles run
    budget               \* handler invocations the run may still begin

vars == << BLACKLIST_KEYWORDS, SETTINGS, STATS, USER_IDS, tasks, job_queue,
           delivered, budget >>

\* A handler invocation: the coroutine's function, the await it is suspended
\* at ("done": the coroutine has ended), how it ended ("returned" or
\* "raised"), the sender of its update and its local variables.
Task(handler, pc, user, local) ==
    [ handler |-> handler, pc |-> pc, outcome |-> "", user |-> user,
      local |-> local ]

Done(task, outcome) == [task EXCEPT !.pc = "done", !.outcome = outcome]

Running == BagToSet(tasks)

\* A scheduled job: its callback, the delay of its first run, its repeat
\* interval (0: one-shot), its data and chat_id.  silent_when_scheduled is
\* history: the value SILENT_POST had when an ad job was scheduled.
Job(callback, when, interval, message_id, chat_id, silent) ==
    [ callback |-> callback, when |-> when, interval |-> interval,
      message_id |-> message_id, chat_id |-> chat_id,
      silent_when_scheduled |-> silent ]

\* The scheduled jobs with the given callback.
Scheduled(callback) == { job \in BagToSet(job_queue) : job.callback = callback }

\* run_once / run_repeating
RunOnce(q, job) == q (+) SetToBag({job})

\* A job that ran: a repeating job stays scheduled, a one-shot job is removed.
AfterRun(q, job) == IF job.interval > 0 THEN q ELSE q (-) SetToBag({job})

\* What an awaited call of the platform client does: it returns or it raises.
Results == { "ok", "error" }

\* The ids the platform gives a sent message.
MessageIds == { 1, 2 }

\* STATS[key] += 1
IncStatTwice(stats, key) == [stats EXCEPT ![key] = @ + 2]

IncStat(stats, key) == [stats EXCEPT ![key] = @ + 1]

\* The state after the module is loaded with the environment variables
\* BLACKLIST_KEYWORDS, FORWARD_FOOTER and WELCOME_MESSAGE drawn from the
\* given values.
Load(blacklists, footers, welcomes, events) ==
    /\ \E blacklist_str \in blacklists :
          BLACKLIST_KEYWORDS = ParseBlacklist(blacklist_str)
    /\ \E footer \in footers, welcome \in welcomes :
          SETTINGS = [ SILENT_POST |-> FALSE, FORWARD_FOOTER |-> footer,
                       WELCOME_MESSAGE |-> welcome ]
    /\ STATS = [ ads_sent |-> 0, forwards_done |-> 0, welcomes_sent |-> 0 ]
    /\ USER_IDS = {}
    /\ tasks = EmptyBag
    /\ job_queue = RunOnce(EmptyBag,
                           Job("send_promotional_post_job", 10, 3600, 0, 0, FALSE))
    /\ delivered = [ ads |-> 0, forwards |-> 0, welcomes |-> 0, toggles |-> 0 ]
    /\ budget = events

\* A new handler invocation begins, suspended at its first await or ended.
Begin(task) ==
    /\ budget > 0
    /\ BagCardinality(tasks) < MaxTasks
    /\ tasks' = tasks (+) SetToBag({task})
    /\ budget' = budget - 1

\* Invocation task goes on to its next await, or ends.
Step(task, next) == tasks' = (tasks (-) SetToBag({task})) (+) SetToBag({next})

At(task, handler, pc) ==
    task \in Running /\ task.handler = handler /\ task.pc = pc

\* The awaited call is the handler's last statement: the handler returns when
\* the call returns, and the call's exception leaves the handler.
LastAwait(handler, pc) ==
    /\ \E task \in Running, r \in Results :
          /\ At(task, handler, pc)
          /\ Step(task, Done(task, IF r = "ok" THEN "returned" ELSE "raised"))
    /\ UNCHANGED << BLACKLIST_KEYWORDS, SETTINGS, STATS, USER_IDS, job_queue,
                    delivered, budget >>

\* ------------------------------------------------------------- start
\* USER_IDS.add(chat_id)
AddReplacing(user_ids, chat_id) == {chat_id}

Add(user_ids, chat_id) == user_ids \cup {chat_id}

start(upd) ==
    /\ Dispatch(upd) = "start"
    /\ USER_IDS' = Add(USER_IDS, upd.chat)
    /\ Begin(Task("start", "reply_html", upd.user,
                  [ chat |-> upd.chat,
                    admin_keyboard |-> upd.user \in ADMIN_IDS ]))
    /\ UNCHANGED << BLACKLIST_KEYWORDS, SETTINGS, STATS, job_queue, delivered >>

start_reply == LastAwait("start", "reply_html")

\* ------------------------------------------------------ help_command
help_command(upd) ==
    /\ Dispatch(upd) = "help_command"
    /\ Begin(Task("help_command", "reply_text", upd.user, [none |-> 0]))
    /\ UNCHANGED << BLACKLIST_KEYWORDS, SETTINGS, STATS, USER_IDS, job_queue,
                    delivered >>

help_command_reply == LastAwait("help_command", "reply_text")

\* ---------------------------------------------------- manual_post_ad
manual_post_ad(upd) ==
    /\ Dispatch(upd) = "manual_post_ad"
    /\ Begin(Task("manual_post_ad", "reply_text", upd.user, [none |-> 0]))
    /\ UNCHANGED << BLACKLIST_KEYWORDS, SETTINGS, STATS, USER_IDS, job_queue,
                    delivered >>

\* context.job_queue.run_once(send_promotional_post_job, 1), once the reply is sent
manual_post_ad_reply ==
    \E task \in Running :
       /\ At(task, "manual_post_ad", "reply_text")
       /\ \E r \in Results :
             IF r = "ok"
             THEN /\ job_queue' = RunOnce(job_queue,
                         Job("send_promotional_post_job", 1, 0, 0, 0,
                             SETTINGS.SILENT_POST))
                  /\ Step(task, Done(task, "returned"))
             ELSE /\ job_queue' = job_queue
                  /\ Step(task, Done(task, "raised"))
       /\ UNCHANGED << BLACKLIST_KEYWORDS, SETTINGS, STATS, USER_IDS, delivered,
                       budget >>

\* ----------------------------------------------------- settings_menu
settings_menu(upd) ==
    /\ Dispatch(upd) = "settings_menu"
    /\ Begin(Task("settings_menu", "reply_text", upd.user,
                  [ silent_status |-> SETTINGS.SILENT_POST ]))
    /\ UNCHANGED << BLACKLIST_KEYWORDS, SETTINGS, STATS, USER_IDS, job_queue,
                    delivered >>

settings_menu_reply == LastAwait("settings_menu", "reply_text")

\* ------------------------------------------- settings_button_handler
settings_button_handler(upd) ==
    /\ Dispatch(upd) = "settings_button_handler"
    /\ Begin(Task("settings_button_handler", "answer", upd.user,
                  [ data |-> upd.data ]))
    /\ UNCHANGED << BLACKLIST_KEYWORDS, SETTINGS, STATS, USER_IDS, job_queue,
                    delivered >>

\* SETTINGS["SILENT_POST"] = not SETTINGS["SILENT_POST"]
ToggleStuck(settings) == [settings EXCEPT !.SILENT_POST = TRUE]

ToggleOff(settings) == [settings EXCEPT !.SILENT_POST = FALSE]

Toggle(settings) == [settings EXCEPT !.SILENT_POST = ~@]

\* if query.data == "toggle_silent_post"
IsToggleOrClose(data) == data \in { "toggle_silent_post", "close_settings" }

IsToggle(data) == data = "toggle_silent_post"

\* query.answer() has returned or raised; the branch on query.data follows.
settings_button_answer ==
    \E task \in Running :
       /\ At(task, "settings_button_handler", "answer")
       /\ \E r \in Results :
             IF r # "ok"
             THEN /\ Step(task, Done(task, "raised"))
                  /\ UNCHANGED << SETTINGS, delivered >>
             ELSE IF IsToggle(task.local.data)
             THEN /\ SETTINGS' = Toggle(SETTINGS)
                  /\ delivered' = [delivered EXCEPT !.toggles = (@ + 1) % 2]
                  /\ Step(task, [task EXCEPT !.pc = "edit_message_text"])
             ELSE IF task.local.data = "close_settings"
             THEN /\ Step(task, [task EXCEPT !.pc = "edit_message_text"])
                  /\ UNCHANGED << SETTINGS, delivered >>
             ELSE /\ Step(task, Done(task, "returned"))
                  /\ UNCHANGED << SETTINGS, delivered >>
       /\ UNCHANGED << BLACKLIST_KEYWORDS, STATS, USER_IDS, job_queue, budget >>

settings_button_edit ==
    LastAwait("settings_button_handler", "edit_message_text")

\* ----------------------------------------------------- stats_command
\* The report: the three counters and len(USER_IDS); the uptime is left out.
stats_command(upd) ==
    /\ Dispatch(upd) = "stats_command"
    /\ Begin(Task("stats_command", "reply_text", upd.user,
                  [ stats |-> STATS, users |-> Cardinality(USER_IDS) ]))
    /\ UNCHANGED << BLACKLIST_KEYWORDS, SETTINGS, STATS, USER_IDS, job_queue,
                    delivered >>

stats_command_reply == LastAwait("stats_command", "reply_text")

\* ------------------------------------------------- broadcast_command
\* context.args: the words of the message text after the command
Args(text) == Tail(SplitWs(text))

\* " ".join(context.args)
MessageToBroadcast(text) == Join(<<" ">>, Args(text))

\* What a send to one recipient does: it returns, raises Forbidden (the
\* recipient blocked the bot) or raises another error.
SendResults == { "ok", "Forbidden", "error" }

\* The users the loop has taken from the set so far.
Visited(local) == { a.user_id : a \in local.attempts }

\* The head of "for user_id in USER_IDS": the set iterator raises RuntimeError
\* when the set's size is no longer the size it had when the loop began;
\* otherwise it yields an identifier not yet visited, in no fixed order, and
\* the send to it is issued; when none is left the final report is issued.
LoopHeadAgain(task) ==
    LET local == task.local
    IN  IF Cardinality(USER_IDS) # local.si_used
        THEN { Done(task, "raised") }
        ELSE IF Cardinality(local.attempts) >= local.si_used
        THEN { [task EXCEPT !.pc = "report_reply"] }
        ELSE { [task EXCEPT !.pc = "send_message", !.local.user_id = u] :
                 u \in USER_IDS }

LoopHead(task) ==
    LET local == task.local
        rest == USER_IDS \ Visited(local)
    IN  IF Cardinality(USER_IDS) # local.si_used
        THEN { Done(task, "raised") }
        ELSE IF rest = {}
        THEN { [task EXCEPT !.pc = "report_reply"] }
        ELSE { [task EXCEPT !.pc = "send_message", !.local.user_id = u] :
                 u \in rest }

\* if not message_to_broadcast
IsEmptyBroadcastNever(message_to_broadcast) == FALSE

IsEmptyBroadcast(message_to_broadcast) == ~Truthy(message_to_broadcast)

broadcast_command(upd) ==
    /\ Dispatch(upd) = "broadcast_command"
    /\ LET message_to_broadcast == MessageToBroadcast(upd.text)
           local == [ text |-> upd.text,
                      message_to_broadcast |-> message_to_broadcast,
                      success_count |-> 0, failed_count |-> 0,
                      user_id |-> 0, attempts |-> {}, si_used |-> 0 ]
       IN  Begin(Task("broadcast_command",
                      IF IsEmptyBroadcast(message_to_broadcast)
                      THEN "usage_reply" ELSE "announce_reply",
                      upd.user, local))
    /\ UNCHANGED << BLACKLIST_KEYWORDS, SETTINGS, STATS, USER_IDS, job_queue,
                    delivered >>

broadcast_usage_reply == LastAwait("broadcast_command", "usage_reply")

\* The "Starting broadcast" reply has returned or raised; the loop begins.
broadcast_announce_reply ==
    \E task \in Running :
       /\ At(task, "broadcast_command", "announce_reply")
       /\ \E r \in Results :
             IF r # "ok"
             THEN Step(task, Done(task, "raised"))
             ELSE \E next \in LoopHead([task EXCEPT
                                          !.local.si_used = Cardinality(USER_IDS)]) :
                     Step(task, next)
       /\ UNCHANGED << BLACKLIST_KEYWORDS, SETTINGS, STATS, USER_IDS, job_queue,
                       delivered, budget >>

\* success_count += 1 / failed_count += 1
TallyAlwaysSuccess(local, r) == [local EXCEPT !.success_count = @ + 1]

Tally(local, r) ==
    IF r = "ok" THEN [local EXCEPT !.success_count = @ + 1]
    ELSE [local EXCEPT !.failed_count = @ + 1]

\* The send to user_id has returned or raised: the tally, then the sleep
\* (after a success) or the next recipient (after a failure).
broadcast_send ==
    \E task \in Running :
       /\ At(task, "broadcast_command", "send_message")
       /\ \E r \in SendResults :
             LET attempts == task.local.attempts
                               \cup { [ user_id |-> task.local.user_id,
                                        result |-> r ] }
                 tallied == [task EXCEPT
                               !.local = Tally([@ EXCEPT !.attempts = attempts], r)]
             IN  IF r = "ok"
                 THEN Step(task, [tallied EXCEPT !.pc = "sleep"])
                 ELSE \E next \in LoopHead(tallied) : Step(task, next)
       /\ UNCHANGED << BLACKLIST_KEYWORDS, SETTINGS, STATS, USER_IDS, job_queue,
                       delivered, budget >>

\* asyncio.sleep(0.1) has returned: the next recipient.
broadcast_sleep ==
    \E task \in Running :
       /\ At(task, "broadcast_command", "sleep")
       /\ \E next \in LoopHead(task) : Step(task, next)
       /\ UNCHANGED << BLACKLIST_KEYWORDS, SETTINGS, STATS, USER_IDS, job_queue,
                       delivered, budget >>

broadcast_report_reply ==
    LastAwait("broadcast_command", "report_reply")

\* ----------------------------------------- send_promotional_post_job
\* disable_notification=SETTINGS["SILENT_POST"], read when the send is issued
NotificationFlagOfJob(settings, job) == job.silent_when_scheduled

NotificationFlag(settings, job) == settings.SILENT_POST

\* A scheduled run of the job: the send of the ad is issued.  Which of the
\* PROMOTIONAL_MESSAGES is drawn is left out.
send_promotional_post_job ==
    \E job \in Scheduled("send_promotional_post_job") :
       /\ job_queue' = AfterRun(job_queue, job)
       /\ Begin(Task("send_promotional_post_job", "send_message", NoUser,
                     [ disable_notification |->
                           NotificationFlag(SETTINGS, job),
                       job |-> job ]))
       /\ UNCHANGED << BLACKLIST_KEYWORDS, SETTINGS, STATS, USER_IDS, delivered >>

\* The send has returned (the counter is incremented) or raised (logged).
send_promotional_post_send ==
    \E task \in Running :
       /\ At(task, "send_promotional_post_job", "send_message")
       /\ \E r \in Results :
             IF r = "ok"
             THEN /\ STATS' = IncStat(STATS, "ads_sent")
                  /\ delivered' = [delivered EXCEPT !.ads = @ + 1]
             ELSE UNCHANGED << STATS, delivered >>
       /\ Step(task, Done(task, "returned"))
       /\ UNCHANGED << BLACKLIST_KEYWORDS, SETTINGS, USER_IDS, job_queue, budget >>

\* ---------------------------------------------------- news_forwarder
\* (message.text or message.caption or "").lower()
MessageContent(text, caption) == Lower(Or(Or(text, caption), <<>>))

\* any(keyword in message_content for keyword in BLACKLIST_KEYWORDS)
IsBlacklisted(message_content, keywords) ==
    \E keyword \in keywords : Contains(message_content, keyword)

\* An outbound relay operation and the text or caption it carries.
RelayOp(method, text, caption) ==
    [ method |-> method, text |-> text, caption |-> caption ]

NoRelay == RelayOp("none", None, None)

\* The relay the forwarder issues for a message that passed the filter.
RelayStripped(text, caption, footer) ==
    IF ~Truthy(footer) THEN RelayOp("forward", None, None)
    ELSE IF Truthy(text)
    THEN RelayOp("send_message", Strip(text) \o <<"\n", "\n">> \o Strip(footer), None)
    ELSE RelayOp("copy", None, Or(caption, <<>>) \o <<"\n", "\n">> \o footer)

RelayCaptionFirst(text, caption, footer) ==
    IF ~Truthy(footer) THEN RelayOp("forward", None, None)
    ELSE IF Truthy(caption)
    THEN RelayOp("copy", None, caption \o <<"\n", "\n">> \o footer)
    ELSE IF Truthy(text)
    THEN RelayOp("send_message", text \o <<"\n", "\n">> \o footer, None)
    ELSE RelayOp("copy", None, <<"\n", "\n">> \o footer)

Relay(text, caption, footer) ==
    IF ~Truthy(footer)
    THEN RelayOp("forward", None, None)
    ELSE LET new_caption == IF ~Truthy(text)
                            THEN Or(caption, <<>>) \o <<"\n", "\n">> \o footer
                            ELSE None
             new_text == IF Truthy(text)
                         THEN text \o <<"\n", "\n">> \o footer
                         ELSE None
         IN  IF Truthy(new_text)
             THEN RelayOp("send_message", new_text, None)
             ELSE RelayOp("copy", None, new_caption)

news_forwarder(upd) ==
    /\ Dispatch(upd) = "news_forwarder"
    /\ LET message_content == MessageContent(upd.text, upd.caption)
           dropped == IsBlacklisted(message_content, BLACKLIST_KEYWORDS)
           local == [ text |-> upd.text, caption |-> upd.caption,
                      relay |-> IF dropped THEN NoRelay
                                ELSE Relay(upd.text, upd.caption,
                                           SETTINGS.FORWARD_FOOTER) ]
           task == Task("news_forwarder", "relay", upd.user, local)
       IN  Begin(IF dropped THEN Done(task, "returned") ELSE task)
    /\ UNCHANGED << BLACKLIST_KEYWORDS, SETTINGS, STATS, USER_IDS, job_queue,
                    delivered >>

\* The relay has returned (the counter is incremented) or raised (logged).
news_forwarder_relay ==
    \E task \in Running :
       /\ At(task, "news_forwarder", "relay")
       /\ \E r \in Results :
             /\ IF r = "ok"
                THEN /\ STATS' = IncStat(STATS, "forwards_done")
                     /\ delivered' = [delivered EXCEPT !.forwards = @ + 1]
                ELSE UNCHANGED << STATS, delivered >>
             /\ Step(task, Done(task, "returned"))
       /\ UNCHANGED << BLACKLIST_KEYWORDS, SETTINGS, USER_IDS, job_queue, budget >>

\* ------------------------------------------------ delete_message_job
\* A scheduled run of the job: the delete is issued.
delete_message_job ==
    \E job \in Scheduled("delete_message_job") :
       /\ job_queue' = AfterRun(job_queue, job)
       /\ Begin(Task("delete_message_job", "delete_message", NoUser,
                     [ job |-> job ]))
       /\ UNCHANGED << BLACKLIST_KEYWORDS, SETTINGS, STATS, USER_IDS, delivered >>

delete_message_delete ==
    LastAwait("delete_message_job", "delete_message")

\* ------------------------------------------------- greet_new_members
\* The delay of the deletion of a welcome message.
WelcomeDeleteDelay == 90

\* new_member.mention_html()
MentionHtml(user) ==
    << "@", CASE user = 1 -> "u1" [] user = 2 -> "u2" [] OTHER -> "u" >>

\* the title of the chat of the update
ChatTitle(chat) == IF chat = CHANNEL_ID THEN <<"T">> ELSE <<"G">>

\* if not welcome_template: return
NoTemplateNever(welcome_template) == FALSE

NoTemplate(welcome_template) == ~Truthy(welcome_template)

\* The handler up to its first await: nothing without a template; the
\* expression update.chat raises AttributeError on an update object that has
\* no attribute chat, and str.format raises KeyError on an unknown field;
\* otherwise the welcome message is rendered and its send is issued.
greet_new_members(upd) ==
    /\ Dispatch(upd) = "greet_new_members"
    /\ LET welcome_template == SETTINGS.WELCOME_MESSAGE
           task == Task("greet_new_members", "send_message", upd.user,
                        [ chat |-> upd.chat,
                          transition |-> upd.data,
                          message_text |-> None,
                          sent_message_id |-> 0,
                          join_message_id |-> upd.message_id ])
       IN  IF NoTemplate(welcome_template)
           THEN Begin(Done(task, "returned"))
           ELSE IF ~upd.chat_attr \/ FormatRaises(welcome_template)
           THEN Begin(Done(task, "raised"))
           ELSE Begin([task EXCEPT !.local.message_text =
                         Format(welcome_template, MentionHtml(upd.user),
                                ChatTitle(upd.chat))])
    /\ UNCHANGED << BLACKLIST_KEYWORDS, SETTINGS, STATS, USER_IDS, job_queue,
                    delivered >>

\* The send has raised (the exception leaves the handler) or returned the
\* sent message: its deletion is scheduled and the counter incremented; then
\* the delete of the join message is issued, unless the update has no
\* effective_message (the AttributeError is caught and logged).
greet_send ==
    \E task \in Running :
       /\ At(task, "greet_new_members", "send_message")
       /\ \E r \in Results, message_id \in MessageIds :
             IF r # "ok"
             THEN /\ Step(task, Done(task, "raised"))
                  /\ UNCHANGED << STATS, job_queue, delivered >>
             ELSE /\ job_queue' = RunOnce(job_queue,
                         Job("delete_message_job", WelcomeDeleteDelay, 0, message_id,
                             CHANNEL_ID, FALSE))
                  /\ STATS' = IncStat(STATS, "welcomes_sent")
                  /\ delivered' = [delivered EXCEPT !.welcomes = @ + 1]
                  /\ LET sent == [task EXCEPT !.local.sent_message_id = message_id]
                     IN  Step(task, IF task.local.join_message_id = 0
                                    THEN Done(sent, "returned")
                                    ELSE [sent EXCEPT !.pc = "delete_message"])
       /\ UNCHANGED << BLACKLIST_KEYWORDS, SETTINGS, USER_IDS, budget >>

\* The delete of the join message has returned or raised (caught, logged).
greet_delete_join ==
    \E task \in Running :
       /\ At(task, "greet_new_members", "delete_message")
       /\ Step(task, Done(task, "returned"))
       /\ UNCHANGED << BLACKLIST_KEYWORDS, SETTINGS, STATS, USER_IDS, job_queue,
                       delivered, budget >>

\* ------------------------------------------------------- the system
\* The coroutine has ended: its frame is dropped.
Return ==
    \E task \in Running :
       /\ task \in Running
       /\ task.pc = "done"
       /\ tasks' = tasks (-) SetToBag({task})
       /\ UNCHANGED << BLACKLIST_KEYWORDS, SETTINGS, STATS, USER_IDS, job_queue,
                       delivered, budget >>

\* The callbacks the handlers are registered with.
Callbacks == { Handlers[i].callback : i \in 1..Len(Handlers) }

\* The updates of U by the callback the application runs for them.
Route(U) == [ h \in Callbacks |-> { upd \in U : Dispatch(upd) = h } ]

\* The forwarder alone, under every blacklist and footer.
InitForwarder == Load(EnvBlacklist, EnvFooter, {None}, MaxEvents)

ForwarderRouted == Route(ForwarderUpdates)

NextForwarder ==
    \/ \E upd \in ForwarderRouted["news_forwarder"] : news_forwarder(upd)
    \/ news_forwarder_relay
    \/ Return

SpecForwarder == InitForwarder /\ [][NextForwarder]_vars

\* The greeter and the deletion job alone, with and without a template.
InitGreeter == Load({<<>>}, {None}, EnvWelcome, MaxEvents)

GreeterRouted == Route(GreeterUpdates)

NextGreeter ==
    \/ \E upd \in GreeterRouted["greet_new_members"] : greet_new_members(upd)
    \/ greet_send
    \/ greet_delete_join
    \/ delete_message_job
    \/ delete_message_delete
    \/ Return

SpecGreeter == InitGreeter /\ [][NextGreeter]_vars

\* start, stats and broadcast alone.
InitBroadcast == Load({<<>>}, {None}, {None}, MaxEvents)

BroadcastRouted == Route(BroadcastUpdates)

NextBroadcast ==
    \/ \E upd \in BroadcastRouted["start"] : start(upd)
    \/ start_reply
    \/ \E upd \in BroadcastRouted["stats_command"] : stats_command(upd)
    \/ stats_command_reply
    \/ \E upd \in BroadcastRouted["broadcast_command"] : broadcast_command(upd)
    \/ broadcast_usage_reply
    \/ broadcast_announce_reply
    \/ broadcast_send
    \/ broadcast_sleep
    \/ broadcast_report_reply
    \/ Return

SpecBroadcast == InitBroadcast /\ [][NextBroadcast]_vars

\* The handlers that post to the channel, the jobs and the settings buttons.
InitPosting ==
    Load({<<"b">>}, {<<"F">>}, {<<"W", "{username}", "{chat_title}">>}, MaxEvents)

PostingRouted == Route(PostingUpdates)

NextPosting ==
    \/ \E upd \in PostingRouted["manual_post_ad"] : manual_post_ad(upd)
    \/ manual_post_ad_reply
    \/ \E upd \in PostingRouted["settings_button_handler"] :
          settings_button_handler(upd)
    \/ settings_button_answer
    \/ settings_button_edit
    \/ send_promotional_post_job
    \/ send_promotional_post_send
    \/ \E upd \in PostingRouted["news_forwarder"] : news_forwarder(upd)
    \/ news_forwarder_relay
    \/ \E upd \in PostingRouted["greet_new_members"] : greet_new_members(upd)
    \/ greet_send
    \/ greet_delete_join
    \/ delete_message_job
    \/ delete_message_delete
    \/ Return

SpecPosting == InitPosting /\ [][NextPosting]_vars

\* The whole bot.
Init ==
    Load({<<"b">>}, {<<"F">>}, {<<"W", "{username}", "{chat_title}">>},
         MaxSystemEvents)

SystemRouted == Route(SystemUpdates)

Next ==
    \/ \E upd \in SystemRouted["start"] : start(upd)
    \/ start_reply
    \/ \E upd \in SystemRouted["help_command"] : help_command(upd)
    \/ help_command_reply
    \/ \E upd \in SystemRouted["manual_post_ad"] : manual_post_ad(upd)
    \/ manual_post_ad_reply
    \/ \E upd \in SystemRouted["settings_menu"] : settings_menu(upd)
    \/ settings_menu_reply
    \/ \E upd \in SystemRouted["settings_button_handler"] :
          settings_button_handler(upd)
    \/ settings_button_answer
    \/ settings_button_edit
    \/ \E upd \in SystemRouted["stats_command"] : stats_command(upd)
    \/ stats_command_reply
    \/ \E upd \in SystemRouted["broadcast_command"] : broadcast_command(upd)
    \/ broadcast_usage_reply
    \/ broadcast_announce_reply
    \/ broadcast_send
    \/ broadcast_sleep
    \/ broadcast_report_reply
    \/ send_promotional_post_job
    \/ send_promotional_post_send
    \/ \E upd \in SystemRouted["news_forwarder"] : news_forwarder(upd)
    \/ news_forwarder_relay
    \/ \E upd \in SystemRouted["greet_new_members"] : greet_new_members(upd)
    \/ greet_send
    \/ greet_delete_join
    \/ delete_message_job
    \/ delete_message_delete
    \/ Return

Spec == Init /\ [][Next]_vars

\* --------------------------------------------------- the module's load
\* Values of the environment variables BOT_TOKEN, CHANNEL_ID,
\* SOURCE_CHANNEL_ID and ADMIN_ID (None: not set).  A number is one atom.
EnvToken == { None, <<>>, <<"t">> }

EnvChannel == { None, <<>>, <<"-200">> }

EnvSource == { None, <<>>, <<"-100">>, <<"x">>, <<"-100", ",", " ", "-101">> }

EnvAdmin == { None, <<>>, <<"1">>, <<"x">>, <<"1", ",", "2", " ">> }

\* The atoms int() accepts.
Numerals == { "0", "1", "2", "-100", "-101", "-200" }

\* int(s) raises ValueError unless s, stripped, is a numeral.
IntRaises(s) == ~(Len(Strip(s)) = 1 /\ Strip(s)[1] \in Numerals)

\* int(s)
IntOf(s) ==
    LET c == Strip(s)[1]
    IN  CASE c = "0" -> 0 [] c = "1" -> 1 [] c = "2" -> 2
          [] c = "-100" -> -100 [] c = "-101" -> -101 [] c = "-200" -> -200

\* os.getenv(key, default)
GetEnv(value, default) == IF value = None THEN default ELSE value

\* [int(id.strip()) for id in id_str.split(',')]: the list, or the
\* ValueError of the first int() that raises.
ParseIds(id_str) ==
    LET parts == Split(id_str, ",")
    IN  IF \E i \in 1..Len(parts) : IntRaises(Strip(parts[i]))
        THEN [ raises |-> TRUE, ids |-> <<>> ]
        ELSE [ raises |-> FALSE,
               ids |-> [ i \in 1..Len(parts) |-> IntOf(Strip(parts[i])) ] ]

\* The execution of the module's top level is an invocation of its own:
\* pc is the statement it is at, "serving" once the handlers and the
\* repeating job are registered; it ends by the ValueError of line 42
\* ("raised") or by exit() ("exit").
IsModule(task) == task.handler = "<module>"

Serving == \E task \in Running : IsModule(task) /\ task.pc = "serving"

\* if not all([BOT_TOKEN, CHANNEL_ID]): raise ValueError
check_essential ==
    \E task \in Running :
       /\ At(task, "<module>", "check_essential")
       /\ Step(task, IF Truthy(task.local.environ.BOT_TOKEN)
                        /\ Truthy(task.local.environ.CHANNEL_ID)
                     THEN [task EXCEPT !.pc = "SOURCE_CHANNEL_IDS"]
                     ELSE Done(task, "raised"))
       /\ UNCHANGED << BLACKLIST_KEYWORDS, SETTINGS, STATS, USER_IDS, job_queue,
                       delivered, budget >>

\* SOURCE_CHANNEL_IDS = [...], or exit() on ValueError
load_source_channel_ids ==
    \E task \in Running :
       /\ At(task, "<module>", "SOURCE_CHANNEL_IDS")
       /\ LET source_channel_id_str ==
                  GetEnv(task.local.environ.SOURCE_CHANNEL_ID, <<>>)
              parsed == ParseIds(source_channel_id_str)
          IN  Step(task, IF parsed.raises THEN Done(task, "exit")
                         ELSE [task EXCEPT !.pc = "ADMIN_IDS",
                                           !.local.SOURCE_CHANNEL_IDS = parsed.ids])
       /\ UNCHANGED << BLACKLIST_KEYWORDS, SETTINGS, STATS, USER_IDS, job_queue,
                       delivered, budget >>

\* ADMIN_IDS = [...], or exit() on ValueError
load_admin_ids ==
    \E task \in Running :
       /\ At(task, "<module>", "ADMIN_IDS")
       /\ LET admin_id_str == GetEnv(task.local.environ.ADMIN_ID, <<"0">>)
              parsed == ParseIds(admin_id_str)
          IN  Step(task, IF parsed.raises THEN Done(task, "exit")
                         ELSE [task EXCEPT !.pc = "add_handlers",
                                           !.local.ADMIN_IDS = parsed.ids])
       /\ UNCHANGED << BLACKLIST_KEYWORDS, SETTINGS, STATS, USER_IDS, job_queue,
                       delivered, budget >>

\* The application is built, the handlers are added and the ad job is
\* scheduled: from here on events are served.
add_handlers ==
    \E task \in Running :
       /\ At(task, "<module>", "add_handlers")
       /\ Step(task, [task EXCEPT !.pc = "serving"])
       /\ job_queue' = RunOnce(job_queue,
                               Job("send_promotional_post_job", 10, 3600, 0, 0, FALSE))
       /\ UNCHANGED << BLACKLIST_KEYWORDS, SETTINGS, STATS, USER_IDS, delivered,
                       budget >>

\* The process is started under every environment.
InitLoad ==
    /\ BLACKLIST_KEYWORDS = {}
    /\ SETTINGS = [ SILENT_POST |-> FALSE, FORWARD_FOOTER |-> None,
                    WELCOME_MESSAGE |-> None ]
    /\ STATS = [ ads_sent |-> 0, forwards_done |-> 0, welcomes_sent |-> 0 ]
    /\ USER_IDS = {}
    /\ \E token \in EnvToken, channel \in EnvChannel, source \in EnvSource,
          admin \in EnvAdmin :
          tasks = SetToBag({ Task("<module>", "check_essential", NoUser,
                                  [ environ |-> [ BOT_TOKEN |-> token,
                                                  CHANNEL_ID |-> channel,
                                                  SOURCE_CHANNEL_ID |-> source,
                                                  ADMIN_ID |-> admin ],
                                    SOURCE_CHANNEL_IDS |-> <<>>,
                                    ADMIN_IDS |-> <<>> ]) })
    /\ job_queue = EmptyBag
    /\ delivered = [ ads |-> 0, forwards |-> 0, welcomes |-> 0, toggles |-> 0 ]
    /\ budget = MaxEvents

LoadUpdates == { Private(u, <<c>>) : u \in Users, c \in { "/start", "/help" } }

LoadRouted == Route(LoadUpdates)

\* The load, and the first handlers once the process serves.
NextLoad ==
    \/ check_essential
    \/ load_source_channel_ids
    \/ load_admin_ids
    \/ add_handlers
    \/ Serving /\ \E upd \in LoadRouted["start"] : start(upd)
    \/ start_reply
    \/ Serving /\ \E upd \in LoadRouted["help_command"] : help_command(upd)
    \/ help_command_reply
    \/ Return

SpecLoad == InitLoad /\ [][NextLoad]_vars

\* ------------------------------------------------------------ claims
\* The invocations a step begins, moves on or ends.
Before == { task \in BagToSet(tasks) : CopiesIn(task, tasks) > CopiesIn(task, tasks') }

After == { task \in BagToSet(tasks') : CopiesIn(task, tasks') > CopiesIn(task, tasks) }

\* The text, or the empty string for None.
Str(s) == IF s = None THEN <<>> ELSE s

IsForwarder(task) == task.handler = "news_forwarder"

\* C1, as claimed: the forwarder drops a message (it issues no forward, send
\* or copy) if and only if some blacklist keyword is a case-insensitive
\* substring of the message's text and caption, concatenated.
C1_DropsIffKeywordInTextAndCaption ==
    \A task \in Running :
        IsForwarder(task) =>
            ( task.local.relay = NoRelay
              <=> \E k \in BLACKLIST_KEYWORDS :
                     Contains(Lower(Str(task.local.text) \o Str(task.local.caption)),
                              k) )

\* The successful deliveries, by the counter that counts them.
Deliveries(d) ==
    [ ads_sent |-> d.ads, forwards_done |-> d.forwards, welcomes_sent |-> d.welcomes ]

\* C2: in every step each counter of STATS grows by exactly the number of
\* deliveries of its kind that succeeded in the step, which is 0 or 1; a step
\* that drops a message or ends an invocation by an exception changes no
\* counter; no counter ever decreases.
C2_CounterGrowsByDeliveries ==
    [][ /\ \A key \in DOMAIN STATS :
              /\ STATS'[key] - STATS[key]
                   = Deliveries(delivered')[key] - Deliveries(delivered)[key]
              /\ STATS'[key] - STATS[key] \in {0, 1}
        /\ ( \E task \in After :
                /\ task.pc = "done"
                /\ \/ task.outcome = "raised"
                   \/ IsForwarder(task) /\ task.local.relay = NoRelay )
           => STATS' = STATS ]_vars

\* An ad, a forward and a welcome message have each been delivered once.
C2_Witness ==
    /\ STATS = [ ads_sent |-> 1, forwards_done |-> 1, welcomes_sent |-> 1 ]
    /\ delivered.ads = 1 /\ delivered.forwards = 1 /\ delivered.welcomes = 1

IsBroadcast(task) == task.handler = "broadcast_command"

\* The attempts of a broadcast that did not succeed.
Failed(local) == { a \in local.attempts : a.result # "ok" }

\* C3: a broadcast that issues its final report has made exactly one attempt
\* for each of the N identifiers the known-users set held when its loop
\* began, all of them known users; the report's failed count is the number M
\* of attempts that raised and its success count is N - M.
C3_ReportTalliesEveryUser ==
    \A task \in Running :
        (IsBroadcast(task) /\ task.pc = "report_reply") =>
            LET local == task.local
                N == local.si_used
                M == Cardinality(Failed(local))
            IN  /\ Visited(local) \subseteq USER_IDS
                /\ Cardinality(Visited(local)) = N
                /\ Cardinality(local.attempts) = N
                /\ local.success_count + local.failed_count = N
                /\ local.failed_count = M
                /\ local.success_count = N - M

\* A report over two users, one reached and one not.
C3_Witness ==
    \E task \in Running :
        /\ IsBroadcast(task) /\ task.pc = "report_reply"
        /\ task.local.si_used = 2
        /\ task.local.success_count = 1 /\ task.local.failed_count = 1

\* The message text after the command is empty or all whitespace.
NoMessageText(text) == Strip(Tail(text)) = <<>>

\* C4: a broadcast whose message text is empty or all whitespace issues only
\* the usage reply: it attempts no delivery and tallies nothing.
C4_EmptyBroadcastOnlyUsage ==
    \A task \in Running :
        (IsBroadcast(task) /\ NoMessageText(task.local.text)) =>
            /\ task.pc \in { "usage_reply", "done" }
            /\ task.local.attempts = {}
            /\ task.local.si_used = 0
            /\ task.local.success_count = 0 /\ task.local.failed_count = 0

\* An all-whitespace broadcast answered with the usage while users are known.
C4_Witness ==
    /\ USER_IDS # {}
    /\ \E task \in Running :
          /\ IsBroadcast(task) /\ task.pc = "usage_reply"
          /\ Len(task.local.text) > 1

IsAd(task) == task.handler = "send_promotional_post_job"

\* C5: when the send of an ad is issued, its notification flag is the value
\* SILENT_POST has at that moment.
C5_FlagReadAtSend ==
    [][ \A task \in After :
           (IsAd(task) /\ task.pc = "send_message") =>
               task.local.disable_notification = SETTINGS.SILENT_POST ]_vars

\* An ad is being sent with a flag that differs from the value SILENT_POST
\* had when its job was scheduled.
C5_Witness ==
    \E task \in Running :
        /\ IsAd(task) /\ task.pc = "send_message"
        /\ task.local.disable_notification # task.local.job.silent_when_scheduled

IsGreet(task) == task.handler = "greet_new_members"

\* C6, as claimed: with a welcome template configured, every member-join
\* event sends the rendered welcome message, schedules its deletion and
\* increments welcomes_sent.
C6_JoinIsWelcomed ==
    \A task \in Running :
        (IsGreet(task) /\ Truthy(SETTINGS.WELCOME_MESSAGE) /\ task.pc = "done") =>
            /\ task.outcome = "returned"
            /\ task.local.message_text # None
            /\ task.local.sent_message_id \in MessageIds
            /\ STATS.welcomes_sent >= 1

\* C7: with no welcome template configured, a member-join event ends at
\* once: no message is sent, no deletion is scheduled and welcomes_sent stays
\* as it was.
C7_NoTemplateNoWelcome ==
    ~Truthy(SETTINGS.WELCOME_MESSAGE) =>
        /\ STATS.welcomes_sent = 0
        /\ delivered.welcomes = 0
        /\ Scheduled("delete_message_job") = {}
        /\ \A task \in Running :
              /\ task.handler # "delete_message_job"
              /\ IsGreet(task) =>
                    /\ task.pc = "done" /\ task.outcome = "returned"
                    /\ task.local.message_text = None
                    /\ task.local.sent_message_id = 0

\* A join has been handled with the template set to the empty string.
C7_Witness ==
    /\ SETTINGS.WELCOME_MESSAGE = <<>>
    /\ \E task \in Running : IsGreet(task) /\ task.pc = "done"

\* C8, as claimed: the silent-post flag changes only in a step of a settings
\* button pressed by an administrator.
C8_OnlyAdminToggles ==
    [][ SETTINGS'.SILENT_POST # SETTINGS.SILENT_POST =>
           \E task \in Before :
              /\ task.handler = "settings_button_handler"
              /\ task.user \in ADMIN_IDS ]_vars

\* The handlers registered with the administrator filter.
AdminOnly ==
    { "settings_menu", "stats_command", "broadcast_command", "manual_post_ad" }

\* C9: settings-menu, stats, broadcast and manual ad post are dispatched for
\* no event of a sender outside ADMIN_IDS, so every invocation of one of them
\* is an administrator's.
C9_AdminOnlyHandlers ==
    /\ \A h \in AdminOnly : \A upd \in SystemRouted[h] : upd.user \in ADMIN_IDS
    /\ \A task \in Running : task.handler \in AdminOnly => task.user \in ADMIN_IDS

\* An administrator's broadcast is in progress while an event of another
\* user is being handled.
C9_Witness ==
    /\ \E task \in Running : IsBroadcast(task) /\ task.user \in ADMIN_IDS
    /\ \E task \in Running : task.user \in Users \ ADMIN_IDS

\* C10: under every interleaving each counter equals the number of
\* deliveries of its kind that succeeded, and SILENT_POST is the parity of
\* the toggles that ran: no increment and no toggle is lost.
C10_NoLostUpdate ==
    /\ STATS = Deliveries(delivered)
    /\ SETTINGS.SILENT_POST = (delivered.toggles = 1)

\* One ad is delivered and a toggle has run while another ad is in flight.
C10_Witness ==
    /\ STATS.ads_sent = 1
    /\ SETTINGS.SILENT_POST
    /\ \E task \in Running : IsAd(task) /\ task.pc = "send_message"

AtOutboundSend(task) ==
    \/ (IsAd(task) \/ IsGreet(task)) /\ task.pc = "send_message"
    \/ IsForwarder(task) /\ task.pc = "relay"

IsJoinOfChannel(local) == local.chat = CHANNEL_ID /\ local.transition = "joined"

IsStart(task) == task.handler = "start"

\* C14: the known-users set only grows: every step leaves it a superset of
\* what it was; the step that begins a start adds the caller's chat
\* identifier and nothing else; no other step changes it, in particular not
\* a broadcast's send that failed or was blocked.
C14_KnownUsersOnlyGrow ==
    [][ /\ USER_IDS \subseteq USER_IDS'
        /\ \A task \in After :
              (IsStart(task) /\ task.pc = "reply_html") =>
                  USER_IDS' = USER_IDS \cup {task.local.chat}
        /\ USER_IDS' # USER_IDS =>
              \E task \in After : IsStart(task) /\ task.pc = "reply_html"
        /\ ( \E task \in Before : IsBroadcast(task) /\ task.pc = "send_message" )
              => USER_IDS' = USER_IDS ]_vars

\* Two users are known and a broadcast's send to one of them was blocked.
C14_Witness ==
    /\ Cardinality(USER_IDS) = 2
    /\ \E task \in Running :
          /\ IsBroadcast(task)
          /\ \E a \in task.local.attempts :
                a.result = "Forbidden" /\ a.user_id \in USER_IDS

\* C15: for a source-channel message with a non-empty text T and a non-empty
\* footer F, the forwarder either drops the message, exactly when the
\* blacklist filter matches it, or sends to the destination channel a new
\* message whose text is T, two newlines and F, with nothing trimmed.
C15_FooterAppendedToText ==
    \A task \in Running :
        ( /\ IsForwarder(task)
          /\ Truthy(task.local.text)
          /\ Truthy(SETTINGS.FORWARD_FOOTER) ) =>
            IF IsBlacklisted(Lower(task.local.text), BLACKLIST_KEYWORDS)
            THEN task.local.relay = NoRelay
            ELSE task.local.relay
                   = RelayOp("send_message",
                             task.local.text \o <<"\n", "\n">>
                               \o SETTINGS.FORWARD_FOOTER,
                             None)

\* A text and a footer that begin and end with a space are being relayed.
C15_Witness ==
    /\ SETTINGS.FORWARD_FOOTER = <<" ", "G", " ">>
    /\ \E task \in Running :
          /\ IsForwarder(task) /\ task.pc = "relay"
          /\ task.local.text = <<" ", "c", " ">>
          /\ task.local.relay.text = <<" ", "c", " ", "\n", "\n", " ", "G", " ">>

\* The invocations of the settings buttons that have run their toggle and
\* are suspended at the edit of the menu.
Toggled ==
    { task \in Running :
        /\ task.handler = "settings_button_handler"
        /\ task.local.data = "toggle_silent_post"
        /\ task.pc = "edit_message_text" }

\* C16: the step in which a toggle runs makes SILENT_POST the negation of
\* the value it had immediately before and leaves the other settings as they
\* were, and a second toggle right after it gives back the settings held
\* before the first, whatever they were.
C16_ToggleIsInvolution ==
    [][ ( \E task \in After : task \in Toggled' ) =>
           /\ SETTINGS'.SILENT_POST = ~SETTINGS.SILENT_POST
           /\ SETTINGS'.FORWARD_FOOTER = SETTINGS.FORWARD_FOOTER
           /\ SETTINGS'.WELCOME_MESSAGE = SETTINGS.WELCOME_MESSAGE
           /\ Toggle(SETTINGS') = SETTINGS ]_vars

\* Two toggles have run and SILENT_POST is FALSE again.
C16_Witness ==
    /\ ~SETTINGS.SILENT_POST
    /\ \/ Cardinality(Toggled) >= 2
       \/ \E task \in Toggled : CopiesIn(task, tasks) >= 2

\* The variable is set to a comma-separated list of integers.
IsIdList(value) == value # None /\ ~ParseIds(value).raises

\* C17, as claimed: the process registers its handlers and serves events
\* only if the bot credential and the destination channel are set and not
\* empty and the source channel list and the admin list are set and well
\* formed.
C17_ServesOnlyWithFullConfiguration ==
    \A task \in Running :
        (IsModule(task) /\ task.pc = "serving") =>
            LET environ == task.local.environ
            IN  /\ Truthy(environ.BOT_TOKEN)
                /\ Truthy(environ.CHANNEL_ID)
                /\ IsIdList(environ.SOURCE_CHANNEL_ID)
                /\ IsIdList(environ.ADMIN_ID)

\* C18: a source-channel message is relayed exactly when the filter does not
\* match it, and then by one operation: a forward of the message as it is
\* when no footer is configured; with a footer, a new text message when the
\* text is not empty, whether or not there is a caption; otherwise a copy
\* whose caption is the original caption, two newlines and the footer.
C18_OneRelayByFooterAndText ==
    \A task \in Running :
        IsForwarder(task) =>
            LET text == task.local.text
                caption == task.local.caption
                footer == SETTINGS.FORWARD_FOOTER
                separator == <<"\n", "\n">>
            IN  IF IsBlacklisted(MessageContent(text, caption), BLACKLIST_KEYWORDS)
                THEN task.local.relay = NoRelay /\ task.pc = "done"
                ELSE /\ task.pc \in { "relay", "done" }
                     /\ task.local.relay =
                          IF footer = None \/ footer = <<>>
                          THEN RelayOp("forward", None, None)
                          ELSE IF text # None /\ text # <<>>
                          THEN RelayOp("send_message", text \o separator \o footer,
                                       None)
                          ELSE RelayOp("copy", None,
                                       Str(caption) \o separator \o footer)

\* With a footer, a message with a text and a caption is relayed as a text
\* message while a message with a caption alone is relayed as a copy.
C18_Witness ==
    /\ \E task \in Running :
          /\ IsForwarder(task) /\ Truthy(task.local.caption)
          /\ task.local.relay.method = "send_message"
    /\ \E task \in Running :
          /\ IsForwarder(task) /\ task.local.text = None
          /\ task.local.relay.method = "copy"
          /\ Len(task.local.relay.caption) > 3

\* C19: a step changes the settings only if it is the step of a settings
\* button invocation whose data is toggle_silent_post, after its answer; no
\* step changes FORWARD_FOOTER or WELCOME_MESSAGE.
C19_OnlyToggleChangesSettings ==
    [][ /\ SETTINGS' # SETTINGS =>
              \E task \in Before :
                 /\ task.handler = "settings_button_handler"
                 /\ task.pc = "answer"
                 /\ task.local.data = "toggle_silent_post"
        /\ SETTINGS'.FORWARD_FOOTER = SETTINGS.FORWARD_FOOTER
        /\ SETTINGS'.WELCOME_MESSAGE = SETTINGS.WELCOME_MESSAGE ]_vars

\* Close was pressed after a toggle: SILENT_POST is still TRUE.
C19_Witness ==
    /\ SETTINGS.SILENT_POST
    /\ \E task \in Running :
          /\ task.handler = "settings_button_handler"
          /\ task.local.data = "close_settings"
          /\ task.pc = "edit_message_text"

\* C20: the step that begins a start from a chat that is already known
\* leaves the known-users set as it is; the user count a stats report shows
\* is the number of distinct chats in the set; and a broadcast never makes a
\* second attempt for an identifier it has already tried.
C20_StartIsIdempotent ==
    [][ \A task \in After :
           /\ ( /\ IsStart(task) /\ task.pc = "reply_html"
                /\ task.local.chat \in USER_IDS ) => USER_IDS' = USER_IDS
           /\ (task.handler = "stats_command" /\ task.pc = "reply_text") =>
                  task.local.users = Cardinality(USER_IDS)
           /\ IsBroadcast(task) =>
                  /\ Cardinality(task.local.attempts)
                       = Cardinality(Visited(task.local))
                  /\ task.pc = "send_message" =>
                        task.local.user_id \notin Visited(task.local) ]_vars

\* The same chat has issued start twice and is the one known user.
C20_Witness ==
    \E task \in Running :
        /\ IsStart(task)
        /\ CopiesIn(task, tasks) = 2
        /\ USER_IDS = {task.local.chat}

=============================================================================
